---- MODULE Spec2Model ----
(***************************************************************************)
(* Cloud Resource Gateway of html-to-images: GCSService (object storage)   *)
(* and PubSubManager (messaging).  Every async method is a sequence of     *)
(* atomic steps separated by its awaits: the synchronous part up to the    *)
(* first await (validation, request construction), then one step per       *)
(* awaited backend request (the backend's effect and the continuation up   *)
(* to the next await).  The JavaScript event loop may interleave the steps *)
(* of different calls at every await.                                      *)
(***************************************************************************)
EXTENDS Integers, Sequences, FiniteSets, TLC

VARIABLES
  store,    \* bucket contents: file name -> stored object or NoObject
  hist,     \* ghost: last served write per file name
  rules,    \* bucket metadata.lifecycle.rule, a sequence of rules
  now,      \* Date.now(), in milliseconds
  topics,   \* PubSubManager.topics: topic name -> cached handle or NoTopic
  handles,  \* number of Topic handles constructed so far
  log,      \* messages the Pub/Sub backend accepted, in acceptance order
  pc,       \* per caller: the await it is suspended at, "idle" or "done"
  arg,      \* per caller: the arguments and locals of the running call
  res,      \* per caller: the outcome of the last finished call
  gh,       \* per caller, ghost: what the running call has met so far
  env,      \* process.env: GCS_BUCKET_NAME and AUTH_KEY
  instance, \* GCSService.instance, the singleton or NoInstance
  constructed \* ghost: GCSService constructor runs that completed

vars == <<store, hist, rules, now, topics, handles, log, pc, arg, res, gh,
          env, instance, constructed>>

----------------------------------------------------------------------------
\* Bounds of the model

MaxNow == 1          \* clock ticks the model lets pass
MaxBatch == 2        \* longest message list given to publishMessages
MaxLog == 3          \* messages the backend topic accepts before the model stops
MaxHandles == 2      \* Topic handles createTopic obtains before the model stops

\* Program constants
DefaultExpirationDays == 7
DefaultDaysBeforeDeletion == 7
DefaultExpirationMinutes == 60
MsPerMinute == 60 * 1000
DefaultContentType == "application/octet-stream"
BucketName == "my-bucket"

\* JavaScript undefined (an argument left out, a variable or header that is
\* not set), and a string value; the string "undefined" is a string
Undefined == [t |-> "undefined"]
JsString(s) == [t |-> "string", v |-> s]

----------------------------------------------------------------------------
\* Strings as sequences of UTF-16 code units; String.prototype.trim

\* WhiteSpace and LineTerminator of ECMAScript: tab, line feed, vertical tab,
\* form feed, carriage return, space, no-break space, the Unicode space
\* separators, line and paragraph separator, and the byte order mark
WhiteSpace ==
  (9..13) \cup {32, 160, 5760} \cup (8192..8202)
    \cup {8232, 8233, 8239, 8287, 12288, 65279}

IsWhitespace(c) == c \in WhiteSpace

RECURSIVE TrimStart(_)
TrimStart(s) ==
  IF s = <<>> THEN s
  ELSE IF IsWhitespace(Head(s)) THEN TrimStart(Tail(s)) ELSE s

RECURSIVE TrimEnd(_)
TrimEnd(s) ==
  IF s = <<>> THEN s
  ELSE IF IsWhitespace(s[Len(s)]) THEN TrimEnd(SubSeq(s, 1, Len(s) - 1)) ELSE s

Trim(s) == TrimEnd(TrimStart(s))

BadFileNameUntrimmed(fileName) == fileName = <<>>

\* !fileName || fileName.trim() === ""
BadFileName(fileName) == fileName = <<>> \/ Trim(fileName) = <<>>

\* File names the callers pass: empty, whitespace-only (a space and a tab),
\* and one with a leading space (" a")
FileNames == { <<>>, <<32, 9>>, <<32, 97>> }

----------------------------------------------------------------------------
\* Content: a string (written as its UTF-8 bytes) or a Buffer (written as is)

StrContent(cps) == [t |-> "string", v |-> cps]
BufContent(bs) == [t |-> "buffer", v |-> bs]

\* the UTF-8 bytes of one code point of a string; an unpaired surrogate is
\* written as U+FFFD
Utf8Char(cp) ==
  IF cp < 128 THEN <<cp>>
  ELSE IF cp < 2048 THEN <<192 + (cp \div 64), 128 + (cp % 64)>>
  ELSE IF cp \in 55296..57343 THEN <<239, 191, 189>>
  ELSE IF cp < 65536
    THEN <<224 + (cp \div 4096), 128 + ((cp \div 64) % 64), 128 + (cp % 64)>>
  ELSE <<240 + (cp \div 262144), 128 + ((cp \div 4096) % 64),
         128 + ((cp \div 64) % 64), 128 + (cp % 64)>>

RECURSIVE Utf8(_)
Utf8(cps) == IF cps = <<>> THEN <<>> ELSE Utf8Char(Head(cps)) \o Utf8(Tail(cps))

ToBytes(content) == IF content.t = "string" THEN Utf8(content.v) ELSE content.v

Contents == { StrContent(<<233, 8364>>), BufContent(<<233>>) }
ArgContentTypes == { Undefined, JsString("image/svg+xml") }
ArgExpirationDays == { -1, 0, DefaultExpirationDays }

\* a parameter with a default value: the default when the argument is undefined
OrDefault(x, d) == IF x = Undefined THEN d ELSE x.v

\* new Date().toISOString()
ToISOString(ms) == <<"iso", ms>>

----------------------------------------------------------------------------
\* Outcomes of a call

NoArg == [op |-> "none", fileName |-> <<>>]
NoRes == [kind |-> "none"]
Ok(v) == [kind |-> "ok", val |-> v]
Threw(e) == [kind |-> "throw", err |-> e]

\* new Error(message)
Error(msg) == [name |-> "Error", message |-> msg]

WrapNothing(prefix, error) == error

\* new Error(`${prefix}${error instanceof Error ? error.message : String(error)}`)
Wrap(prefix, error) == Error(<<prefix>> \o error.message)

\* Errors the storage client raises: a failed request, and a 404 for a missing object
Unavailable == [name |-> "ApiError", message |-> <<"503 Service Unavailable">>]
NoSuchObject(fileName) ==
  [name |-> "ApiError",
   message |-> <<"No such object: ", instance.bucketName, "/", fileName>>]
BackendFaults == { Unavailable }
NoFault == [name |-> "none", message |-> <<>>]
Responses == { NoFault } \cup BackendFaults

NoObject == [absent |-> TRUE]
NoWrite == [w |-> "none"]

\* ghost of a call: backend requests issued, whether one of them failed for a
\* backend fault, whether the file name was left unwritten since the call
\* began, what the existence check or the delete found, and (setupAutoDelete)
\* whether the bucket had no custom-time rule when the call began and the day
\* count and that flag of the caller's previous call when that was a
\* setupAutoDelete that reported success
NoGhost == [reqs |-> 0, fault |-> FALSE, clean |-> TRUE, seen |-> "na",
            fresh |-> FALSE, prior |-> 0, priorFresh |-> FALSE]

Callers == DOMAIN pc
Free(p) == pc[p] \in {"idle", "done"}

\* a finished call: its outcome
Finish(p, r) ==
  /\ pc' = [pc EXCEPT ![p] = "done"]
  /\ res' = [res EXCEPT ![p] = r]

\* a call rejected by its argument validation, before any backend request
Reject(p, a, msg) ==
  /\ Finish(p, Threw(Error(<<msg>>)))
  /\ arg' = [arg EXCEPT ![p] = a]
  /\ gh' = [gh EXCEPT ![p] = NoGhost]

\* of the arguments a, the ones the validation of the call looks at
Checked(a, name) == [n \in {"op", "fileName", name} |-> a[n]]

\* a call suspended at its first await, one backend request issued
Suspend(p, a, at) ==
  /\ pc' = [pc EXCEPT ![p] = at]
  /\ arg' = [arg EXCEPT ![p] = a]
  /\ res' = [res EXCEPT ![p] = NoRes]
  /\ gh' = [gh EXCEPT ![p] = [NoGhost EXCEPT !.reqs = 1]]

\* gh after caller p's backend request was answered with response f,
\* when that request wrote file name k (k = <<>>: it wrote nothing)
Met(p, f, k, seen) ==
  [q \in Callers |->
     IF q = p
       THEN [gh[p] EXCEPT !.fault = (gh[p].fault \/ f # NoFault), !.seen = seen]
     ELSE IF k # <<>> /\ arg[q].fileName = k
       THEN [gh[q] EXCEPT !.clean = FALSE]
     ELSE gh[q]]

\* gh of a caller whose call has issued one more backend request
OneMore(g) == [g EXCEPT !.reqs = g.reqs + 1]

\* what a step leaves as it was
StoreUnchanged == UNCHANGED <<store, hist>>
ProcessUnchanged == UNCHANGED <<env, instance, constructed>>
BusUnchanged == UNCHANGED <<topics, handles, log>>

----------------------------------------------------------------------------
\* GCSService: the singleton and the environment it is configured from

AuthKey == "k1"
OtherBucketName == "other-bucket"
BucketNames == { BucketName, OtherBucketName }
EnvValues == { Undefined, JsString("") } \cup { JsString(b) : b \in BucketNames }

NoInstance == [none |-> TRUE]

\* `!value` of a string or undefined
Falsy(value) == value = Undefined \/ value = JsString("")

\* the GCSService object the n-th completed constructor run has made
Instance(bucketName, n) == [bucketName |-> bucketName, serial |-> n]

\* a process configured for a bucket whose GCSService has been constructed
InitProcessFor(bucketName) ==
  /\ env = [GCS_BUCKET_NAME |-> JsString(bucketName), AUTH_KEY |-> JsString(AuthKey)]
  /\ instance = Instance(bucketName, 1)
  /\ constructed = 1

InitProcess == InitProcessFor(BucketName)

\* a method of GCSService is called on the instance
HasInstance == instance # NoInstance

NeedsInstanceAlways(existing) == TRUE

\* if (!GCSService.instance)
NeedsInstance(existing) == existing = NoInstance

\* GCSService.getInstance(): synchronous; runs the constructor when there is
\* no instance yet, and the constructor throws when GCS_BUCKET_NAME is unset
GetInstance(p) ==
  LET bucketName == IF Falsy(env.GCS_BUCKET_NAME) THEN "" ELSE env.GCS_BUCKET_NAME.v
  IN /\ Free(p)
     /\ arg' = [arg EXCEPT ![p] = [op |-> "getInstance", fileName |-> <<>>]]
     /\ gh' = [gh EXCEPT ![p] = NoGhost]
     /\ IF ~NeedsInstance(instance)
          THEN /\ Finish(p, Ok(instance))
               /\ UNCHANGED <<instance, constructed>>
        ELSE IF bucketName = ""
          THEN /\ Finish(p, Threw(Error(
                    <<"GCS_BUCKET_NAME environment variable is required">>)))
               /\ UNCHANGED <<instance, constructed>>
        ELSE /\ constructed' = constructed + 1
             /\ instance' = Instance(bucketName, constructed + 1)
             /\ Finish(p, Ok(Instance(bucketName, constructed + 1)))
     /\ StoreUnchanged /\ BusUnchanged /\ UNCHANGED <<rules, now, env>>

\* the process sets an environment variable
SetEnv(name, value) ==
  /\ env' = [env EXCEPT ![name] = value]
  /\ env' # env
  /\ StoreUnchanged /\ BusUnchanged
  /\ UNCHANGED <<rules, now, pc, arg, res, gh, instance, constructed>>

----------------------------------------------------------------------------
\* GCSService: objects of the bucket

SavedObjectUntyped(a) ==
  [content |-> ToBytes(a.content), contentType |-> DefaultContentType,
   customTime |-> a.customTime]

\* file.save(content, { contentType, metadata: { customTime } })
SavedObject(a) ==
  [content |-> ToBytes(a.content), contentType |-> a.contentType,
   customTime |-> a.customTime]

CustomTimeAtExpiry(issued, expirationDays) ==
  ToISOString(issued + expirationDays * 24 * 60 * MsPerMinute)

\* const customTime = new Date().toISOString(), in a call made at time
\* `issued` with the given expirationDays
CustomTime(issued, expirationDays) == ToISOString(issued)

\* uploadObject up to `await file.save(...)`
UploadObject(p, fileName, content, contentType, expirationDays) ==
  LET a == [op |-> "uploadObject", fileName |-> fileName, content |-> content,
            contentType |-> OrDefault(contentType, DefaultContentType),
            expirationDays |-> expirationDays,
            customTime |-> CustomTime(now, expirationDays)]
  IN /\ Free(p) /\ HasInstance
     /\ IF BadFileName(fileName)
          THEN Reject(p, Checked(a, "expirationDays"), "fileName cannot be empty")
        ELSE IF expirationDays < 0
          THEN Reject(p, Checked(a, "expirationDays"),
                      "expirationDays must be a positive number")
        ELSE Suspend(p, a, "upload_save")
     /\ StoreUnchanged /\ BusUnchanged /\ ProcessUnchanged /\ UNCHANGED <<rules, now>>

UploadSavedRetrying(p) ==
  /\ pc[p] = "upload_save"
  /\ \E f \in Responses :
       LET a == arg[p] IN
       IF f = NoFault
         THEN /\ store' = [store EXCEPT ![a.fileName] = SavedObject(a)]
              /\ hist' = [hist EXCEPT ![a.fileName] =
                            [w |-> "upload", content |-> a.content,
                             contentType |-> a.contentType,
                             replaced |-> store[a.fileName] # NoObject]]
              /\ Finish(p, Ok(<<"gs://", instance.bucketName, "/", a.fileName>>))
              /\ gh' = Met(p, f, a.fileName, "na")
              /\ arg' = [arg EXCEPT ![p] = Checked(@, "expirationDays")]
         ELSE /\ StoreUnchanged
              /\ gh' = [Met(p, f, <<>>, "na") EXCEPT ![p] = OneMore(@)]
              /\ UNCHANGED <<pc, res, arg>>
  /\ BusUnchanged /\ ProcessUnchanged /\ UNCHANGED <<rules, now>>

\* the save is answered; uploadObject returns the gs:// URI or throws
UploadSaved(p) ==
  /\ pc[p] = "upload_save"
  /\ \E f \in Responses :
       LET a == arg[p] IN
       IF f = NoFault
         THEN /\ store' = [store EXCEPT ![a.fileName] = SavedObject(a)]
              /\ hist' = [hist EXCEPT ![a.fileName] =
                            [w |-> "upload", content |-> a.content,
                             contentType |-> a.contentType,
                             replaced |-> store[a.fileName] # NoObject]]
              /\ Finish(p, Ok(<<"gs://", instance.bucketName, "/", a.fileName>>))
              /\ gh' = Met(p, f, a.fileName, "na")
         ELSE /\ StoreUnchanged
              /\ Finish(p, Threw(Wrap("Failed to upload object: ", f)))
              /\ gh' = Met(p, f, <<>>, "na")
  /\ arg' = [arg EXCEPT ![p] = Checked(@, "expirationDays")]
  /\ BusUnchanged /\ ProcessUnchanged /\ UNCHANGED <<rules, now>>

\* getObject up to `await file.exists()`
GetObject(p, fileName) ==
  LET a == [op |-> "getObject", fileName |-> fileName]
  IN /\ Free(p) /\ HasInstance
     /\ IF BadFileName(fileName)
          THEN Reject(p, a, "fileName cannot be empty")
          ELSE Suspend(p, a, "get_exists")
     /\ StoreUnchanged /\ BusUnchanged /\ ProcessUnchanged /\ UNCHANGED <<rules, now>>

\* the Error thrown at `if (!exists)`
DoesNotExist(fileName) ==
  Error(<<"File ", fileName, " does not exist in bucket ", instance.bucketName>>)

\* what an answered existence check or delete found
Found(f, exists) ==
  IF f # NoFault THEN "na" ELSE IF exists THEN "present" ELSE "absent"

\* file.exists() is answered; getObject throws or goes on to `await file.download()`
GetExists(p) ==
  /\ pc[p] = "get_exists"
  /\ \E f \in Responses :
       LET a == arg[p]
           exists == store[a.fileName] # NoObject
       IN
       IF f # NoFault
         THEN /\ Finish(p, Threw(Wrap("Failed to get object: ", f)))
              /\ gh' = Met(p, f, <<>>, Found(f, exists))
       ELSE IF ~exists
         THEN /\ Finish(p, Threw(Wrap("Failed to get object: ",
                                      DoesNotExist(a.fileName))))
              /\ gh' = Met(p, f, <<>>, Found(f, exists))
       ELSE /\ pc' = [pc EXCEPT ![p] = "get_download"]
            /\ gh' = [Met(p, f, <<>>, Found(f, exists)) EXCEPT ![p] = OneMore(@)]
            /\ UNCHANGED res
  /\ StoreUnchanged /\ BusUnchanged /\ ProcessUnchanged /\ UNCHANGED <<arg, rules, now>>

\* file.download() is answered; getObject returns the content or throws
GetDownload(p) ==
  /\ pc[p] = "get_download"
  /\ \E f \in Responses :
       LET a == arg[p] IN
       /\ gh' = Met(p, f, <<>>, gh[p].seen)
       /\ IF f # NoFault
            THEN Finish(p, Threw(Wrap("Failed to get object: ", f)))
          ELSE IF store[a.fileName] = NoObject
            THEN Finish(p, Threw(Wrap("Failed to get object: ",
                                      NoSuchObject(a.fileName))))
          ELSE Finish(p, Ok(store[a.fileName].content))
  /\ StoreUnchanged /\ BusUnchanged /\ ProcessUnchanged /\ UNCHANGED <<arg, rules, now>>

\* deleteObject up to `await file.delete()`
DeleteObject(p, fileName) ==
  LET a == [op |-> "deleteObject", fileName |-> fileName]
  IN /\ Free(p) /\ HasInstance
     /\ IF BadFileName(fileName)
          THEN Reject(p, a, "fileName cannot be empty")
          ELSE Suspend(p, a, "delete_delete")
     /\ StoreUnchanged /\ BusUnchanged /\ ProcessUnchanged /\ UNCHANGED <<rules, now>>

RemovedNothing(fileName) == store

\* the bucket after the backend has deleted an object
Removed(fileName) == [store EXCEPT ![fileName] = NoObject]

DeleteAnswerIgnoringNotFound(fileName, exists) == NoFault

\* how the backend answers a delete request it has received: with a 404 when
\* the object is absent
DeleteAnswer(fileName, exists) == IF exists THEN NoFault ELSE NoSuchObject(fileName)

\* file.delete() is answered: the backend removes the object, or rejects the
\* request with a 404 when there is none; deleteObject returns or throws
DeleteDeleted(p) ==
  /\ pc[p] = "delete_delete"
  /\ \E f \in Responses :
       LET a == arg[p]
           exists == store[a.fileName] # NoObject
       IN
       IF f # NoFault
         THEN /\ StoreUnchanged
              /\ Finish(p, Threw(Wrap("Failed to delete object: ", f)))
              /\ gh' = Met(p, f, <<>>, Found(f, exists))
       ELSE IF DeleteAnswer(a.fileName, exists) # NoFault
         THEN /\ UNCHANGED store
              /\ hist' = [hist EXCEPT ![a.fileName] = [w |-> "delete", was |-> "absent"]]
              /\ Finish(p, Threw(Wrap("Failed to delete object: ",
                                      DeleteAnswer(a.fileName, exists))))
              /\ gh' = Met(p, f, <<>>, Found(f, exists))
       ELSE /\ store' = Removed(a.fileName)
            /\ hist' = [hist EXCEPT ![a.fileName] = [w |-> "delete", was |-> "present"]]
            /\ Finish(p, Ok("void"))
            /\ gh' = Met(p, f, a.fileName, Found(f, exists))
  /\ BusUnchanged /\ ProcessUnchanged /\ UNCHANGED <<arg, rules, now>>

\* objectExists up to `await file.exists()`
ObjectExists(p, fileName) ==
  LET a == [op |-> "objectExists", fileName |-> fileName]
  IN /\ Free(p) /\ HasInstance
     /\ IF BadFileName(fileName)
          THEN Reject(p, a, "fileName cannot be empty")
          ELSE Suspend(p, a, "exists_exists")
     /\ StoreUnchanged /\ BusUnchanged /\ ProcessUnchanged /\ UNCHANGED <<rules, now>>

ExistsResultThrowing(f, exists) ==
  IF f # NoFault THEN Threw(Wrap("Failed to check object: ", f)) ELSE Ok(exists)

\* try { return exists } catch (error) { return false }
ExistsResult(f, exists) == IF f # NoFault THEN Ok(FALSE) ELSE Ok(exists)

\* file.exists() is answered; objectExists returns it, or false when it failed
ExistsAnswered(p) ==
  /\ pc[p] = "exists_exists"
  /\ \E f \in Responses :
       LET a == arg[p]
           exists == store[a.fileName] # NoObject
       IN
       /\ gh' = Met(p, f, <<>>, Found(f, exists))
       /\ Finish(p, ExistsResult(f, exists))
  /\ StoreUnchanged /\ BusUnchanged /\ ProcessUnchanged /\ UNCHANGED <<arg, rules, now>>

----------------------------------------------------------------------------
\* GCSService: signed URLs

ArgExpirationMinutes == { -5, 0, 30, DefaultExpirationMinutes }
ArgActions ==
  { Undefined } \cup { JsString(a) : a \in {"read", "write", "delete", "resumable"} }

\* argument lists of createSignedUrl(fileName, expirationMinutes = 60,
\* action = "read"): the trailing arguments may be left out
SignArguments ==
  { <<k>> : k \in FileNames }
    \cup { <<k, m>> : k \in FileNames, m \in ArgExpirationMinutes }
    \cup { <<k, m, a>> : k \in FileNames, m \in ArgExpirationMinutes, a \in ArgActions }

\* the i-th parameter of a call: the argument, or the default value of the
\* parameter when the caller passes none
Param(args, i, default) == IF i <= Len(args) THEN OrDefault(args[i], default) ELSE default

ExpiresInSeconds(issued, expirationMinutes) == issued + expirationMinutes * 60

\* Date.now() + expirationMinutes * 60 * 1000
Expires(issued, expirationMinutes) == issued + expirationMinutes * MsPerMinute

\* createSignedUrl up to `await file.getSignedUrl(options)`
CreateSignedUrl(p, args) ==
  LET fileName == args[1]
      expirationMinutes == IF Len(args) >= 2 THEN args[2] ELSE DefaultExpirationMinutes
      action == Param(args, 3, "read")
      a == [op |-> "createSignedUrl", fileName |-> fileName,
            expirationMinutes |-> expirationMinutes,
            args |-> args, at |-> now,
            options |-> [version |-> "v4",
                         action |-> action,
                         expires |-> Expires(now, expirationMinutes)]]
  IN /\ Free(p) /\ HasInstance
     /\ IF BadFileName(fileName)
          THEN Reject(p, Checked(a, "expirationMinutes"), "fileName cannot be empty")
        ELSE IF expirationMinutes <= 0
          THEN Reject(p, Checked(a, "expirationMinutes"),
                      "expirationMinutes must be a positive number")
        ELSE Suspend(p, a, "sign_url")
     /\ StoreUnchanged /\ BusUnchanged /\ ProcessUnchanged /\ UNCHANGED <<rules, now>>

\* the URL the storage client signs for a file and its options
SignedUrl(fileName, options) ==
  [bucket |-> instance.bucketName, fileName |-> fileName, options |-> options]

\* getSignedUrl is answered; createSignedUrl returns the URL or throws
SignAnswered(p) ==
  /\ pc[p] = "sign_url"
  /\ \E f \in Responses :
       /\ gh' = Met(p, f, <<>>, "na")
       /\ IF f # NoFault
            THEN Finish(p, Threw(Wrap("Failed to create signed URL: ", f)))
            ELSE Finish(p, Ok(SignedUrl(arg[p].fileName, arg[p].options)))
  /\ StoreUnchanged /\ BusUnchanged /\ ProcessUnchanged /\ UNCHANGED <<arg, rules, now>>

----------------------------------------------------------------------------
\* GCSService: lifecycle rules of the bucket

ArgDaysBeforeDeletion == { 0, DefaultDaysBeforeDeletion, 30 }

\* { action: { type: "Delete" }, condition: { daysSinceCustomTime: days } }
CustomTimeRule(type, days) ==
  [action |-> [type |-> type], condition |-> [daysSinceCustomTime |-> days]]
AgeRule(type, days) ==
  [action |-> [type |-> type], condition |-> [age |-> days]]

IsAgeRule(rule) == "age" \in DOMAIN rule.condition

\* rule.condition?.daysSinceCustomTime !== undefined
IsCustomTimeRule(rule) == "daysSinceCustomTime" \in DOMAIN rule.condition

HasCustomTimeRuleOf(existingRules) ==
  \E i \in 1..Len(existingRules) :
    /\ IsCustomTimeRule(existingRules[i])
    /\ existingRules[i].condition.daysSinceCustomTime = DefaultDaysBeforeDeletion

\* existingRules.some(rule => rule.condition?.daysSinceCustomTime !== undefined)
HasCustomTimeRule(existingRules) ==
  \E i \in 1..Len(existingRules) : IsCustomTimeRule(existingRules[i])

\* setupAutoDelete up to `await this.bucket.getMetadata()`
SetupAutoDelete(p, daysBeforeDeletion) ==
  LET a == [op |-> "setupAutoDelete", fileName |-> <<>>,
            daysBeforeDeletion |-> daysBeforeDeletion]
      after == arg[p].op = "setupAutoDelete" /\ res[p] = Ok("void")
      g == [NoGhost EXCEPT
              !.fresh = ~HasCustomTimeRule(rules),
              !.prior = IF after THEN arg[p].daysBeforeDeletion ELSE 0,
              !.priorFresh = after /\ gh[p].fresh]
  IN /\ Free(p) /\ HasInstance
     /\ IF daysBeforeDeletion <= 0
          THEN /\ Finish(p, Threw(Error(<<"daysBeforeDeletion must be a positive number">>)))
               /\ gh' = [gh EXCEPT ![p] = g]
          ELSE /\ pc' = [pc EXCEPT ![p] = "setup_meta"]
               /\ res' = [res EXCEPT ![p] = NoRes]
               /\ gh' = [gh EXCEPT ![p] = OneMore(g)]
     /\ arg' = [arg EXCEPT ![p] = a]
     /\ StoreUnchanged /\ BusUnchanged /\ ProcessUnchanged /\ UNCHANGED <<rules, now>>

\* getMetadata is answered; setupAutoDelete throws, returns because a
\* custom-time rule exists, or goes on to `await this.bucket.addLifecycleRule(...)`
SetupMetadata(p) ==
  /\ pc[p] = "setup_meta"
  /\ \E f \in Responses :
       LET existingRules == rules IN
       IF f # NoFault
         THEN /\ Finish(p, Threw(Wrap("Failed to setup auto-delete: ", f)))
              /\ gh' = Met(p, f, <<>>, "na")
       ELSE IF HasCustomTimeRule(existingRules)
         THEN /\ Finish(p, Ok("void"))
              /\ gh' = Met(p, f, <<>>, "present")
       ELSE /\ pc' = [pc EXCEPT ![p] = "setup_add"]
            /\ gh' = [Met(p, f, <<>>, "absent") EXCEPT ![p] = OneMore(@)]
            /\ UNCHANGED res
  /\ StoreUnchanged /\ BusUnchanged /\ ProcessUnchanged /\ UNCHANGED <<arg, rules, now>>

\* addLifecycleRule is answered: the backend appends the rule;
\* setupAutoDelete returns or throws
SetupAdded(p) ==
  /\ pc[p] = "setup_add"
  /\ \E f \in Responses :
       /\ gh' = Met(p, f, <<>>, gh[p].seen)
       /\ IF f # NoFault
            THEN /\ Finish(p, Threw(Wrap("Failed to setup auto-delete: ", f)))
                 /\ UNCHANGED rules
            ELSE /\ Finish(p, Ok("void"))
                 /\ rules' = Append(rules,
                               CustomTimeRule("Delete", arg[p].daysBeforeDeletion))
  /\ StoreUnchanged /\ BusUnchanged /\ ProcessUnchanged /\ UNCHANGED <<arg, now>>

----------------------------------------------------------------------------
\* PubSubManager

TopicNames == { "tasks" }

\* JavaScript values given as message payloads
Num(n) == [t |-> "number", v |-> n]
Str(cps) == [t |-> "string", v |-> cps]
Undef == [t |-> "undefined", v |-> 0]
Payloads == { Num(1), Num(-10), Str(<<49, 34>>), Undef }

NoAttributes == [none |-> TRUE]
SomeAttributes == [kind |-> "task"]

\* { data, attributes? } as given to publishMessages
Message(data, attributes) == [data |-> data, attributes |-> attributes]
Messages == { Message(Num(1), SomeAttributes), Message(Str(<<49, 34>>), NoAttributes),
              Message(Undef, NoAttributes) }

RECURSIVE SeqsUpTo(_, _)
SeqsUpTo(S, n) ==
  IF n = 0 THEN { <<>> }
  ELSE LET shorter == SeqsUpTo(S, n - 1)
       IN shorter \cup { Append(l, x) : l \in { m \in shorter : Len(m) = n - 1 }, x \in S }

\* message lists given to publishMessages: the serialisable messages in any
\* order, and such a list followed by a message that has no JSON text
Batches ==
  LET good == { m \in Messages : m.data # Undef }
  IN SeqsUpTo(good, MaxBatch)
       \cup { Append(l, m) : l \in SeqsUpTo(good, MaxBatch - 1),
                             m \in Messages \ good }

\* JSON.stringify(value): the text as code points; undefined has no JSON text
NoText == [defined |-> FALSE, text |-> <<>>]
Text(cps) == [defined |-> TRUE, text |-> cps]

\* the decimal digits of a natural number
RECURSIVE Digits(_)
Digits(n) == IF n < 10 THEN <<48 + n>> ELSE Digits(n \div 10) \o <<48 + (n % 10)>>

\* Number::toString of an integer
NumberToString(n) == IF n < 0 THEN <<45>> \o Digits(-n) ELSE Digits(n)

\* a lower-case hexadecimal digit, and the escape \uXXXX of a code unit
HexDigit(d) == IF d < 10 THEN 48 + d ELSE 87 + d
UnicodeEscape(c) ==
  <<92, 117, HexDigit(c \div 4096), HexDigit((c \div 256) % 16),
    HexDigit((c \div 16) % 16), HexDigit(c % 16)>>

\* QuoteJSONString, one code point: the quote and the backslash are escaped,
\* the control characters and unpaired surrogates are written as escapes
QuoteChar(c) ==
  IF c = 34 \/ c = 92 THEN <<92, c>>
  ELSE IF c = 8 THEN <<92, 98>>
  ELSE IF c = 9 THEN <<92, 116>>
  ELSE IF c = 10 THEN <<92, 110>>
  ELSE IF c = 12 THEN <<92, 102>>
  ELSE IF c = 13 THEN <<92, 114>>
  ELSE IF c < 32 \/ c \in 55296..57343 THEN UnicodeEscape(c)
  ELSE <<c>>

RECURSIVE QuoteChars(_)
QuoteChars(cps) ==
  IF cps = <<>> THEN <<>> ELSE QuoteChar(Head(cps)) \o QuoteChars(Tail(cps))

JSONStringify(value) ==
  IF value.t = "undefined" THEN NoText
  ELSE IF value.t = "number" THEN Text(NumberToString(value.v))
  ELSE Text(<<34>> \o QuoteChars(value.v) \o <<34>>)

\* Buffer.from(text) of a string; of undefined it throws a TypeError
NotAString ==
  [name |-> "TypeError", message |-> <<"The first argument must be of type string">>]
BufferFrom(text) == Utf8(text.text)

RethrowWrapped(error) == Wrap("Failed to publish messages: ", error)

\* catch (error) { console.error(...); throw error; }
Rethrow(error) == error

\* the handle this.topics holds for a name, 0 when it holds none
Cached(topicName) == IF topicName \in DOMAIN topics THEN topics[topicName] ELSE 0

GetTopicUncached(topicName) ==
  /\ handles' = handles + 1
  /\ topics' = [t \in DOMAIN topics \cup {topicName} |->
                  IF t = topicName THEN handles + 1 ELSE topics[t]]

\* getTopic: the cache after the lookup (a new handle is constructed and
\* stored when the name has none)
GetTopic(topicName) ==
  IF topicName \in DOMAIN topics
    THEN /\ UNCHANGED <<topics, handles>>
    ELSE /\ handles' = handles + 1
         /\ topics' = [t \in DOMAIN topics \cup {topicName} |->
                         IF t = topicName THEN handles + 1 ELSE topics[t]]

\* the message ID the backend assigns to the message it accepts next
NextMessageId == Len(log) + 1

\* the backend accepts a message on a topic
Accepted(topicName, data, attributes) ==
  Append(log, [topic |-> topicName, data |-> data, attributes |-> attributes])

\* publishMessage up to `await topic.publishMessage({ data, attributes })`
PublishMessage(p, topicName, message, attributes) ==
  LET text == JSONStringify(message)
      a == [op |-> "publishMessage", fileName |-> <<>>, topicName |-> topicName,
            topic |-> topics'[topicName],
            message |-> message, attributes |-> attributes]
  IN /\ Free(p)
     /\ GetTopic(topicName)
     /\ arg' = [arg EXCEPT ![p] = a]
     /\ IF ~text.defined
          THEN /\ Finish(p, Threw(Rethrow(NotAString)))
               /\ gh' = [gh EXCEPT ![p] = NoGhost]
          ELSE /\ pc' = [pc EXCEPT ![p] = "pub_send"]
               /\ res' = [res EXCEPT ![p] = NoRes]
               /\ gh' = [gh EXCEPT ![p] = OneMore(NoGhost)]
     /\ StoreUnchanged /\ ProcessUnchanged /\ UNCHANGED <<log, rules, now>>

\* the publish is answered; publishMessage returns the message ID or rethrows
PublishSent(p) ==
  /\ pc[p] = "pub_send"
  /\ \E f \in Responses :
       LET a == arg[p] IN
       /\ gh' = Met(p, f, <<>>, "na")
       /\ IF f # NoFault
            THEN /\ Finish(p, Threw(Rethrow(f)))
                 /\ UNCHANGED log
            ELSE /\ Len(log) < MaxLog
                 /\ log' = Accepted(a.topicName, BufferFrom(JSONStringify(a.message)),
                                    a.attributes)
                 /\ Finish(p, Ok(NextMessageId))
  /\ StoreUnchanged /\ ProcessUnchanged /\ UNCHANGED <<arg, topics, handles, rules, now>>

PushFront(messageIds, messageId) == <<messageId>> \o messageIds

\* messageIds.push(messageId)
Push(messageIds, messageId) == Append(messageIds, messageId)

\* publishMessages from the top of the loop with messageIds collected so far:
\* returns when no message is left, throws when the next one has no JSON
\* text, else suspends at `await topic.publishMessage(...)`
PublishLoop(p, a, messageIds, g) ==
  LET next == Len(messageIds) + 1
      b == [a EXCEPT !.messageIds = messageIds]
  IN /\ arg' = [arg EXCEPT ![p] = b]
     /\ IF next > Len(a.messages)
          THEN /\ Finish(p, Ok(messageIds))
               /\ gh' = g
        ELSE IF ~JSONStringify(a.messages[next].data).defined
          THEN /\ Finish(p, Threw(Rethrow(NotAString)))
               /\ gh' = g
        ELSE /\ pc' = [pc EXCEPT ![p] = "pubs_send"]
             /\ res' = [res EXCEPT ![p] = NoRes]
             /\ gh' = [g EXCEPT ![p] = OneMore(@)]

\* publishMessages up to its first await
PublishMessages(p, topicName, messages) ==
  LET a == [op |-> "publishMessages", fileName |-> <<>>, topicName |-> topicName,
            topic |-> topics'[topicName],
            messages |-> messages, messageIds |-> <<>>]
  IN /\ Free(p)
     /\ GetTopic(topicName)
     /\ PublishLoop(p, a, <<>>, [gh EXCEPT ![p] = NoGhost])
     /\ StoreUnchanged /\ ProcessUnchanged /\ UNCHANGED <<log, rules, now>>

PublishesSentContinuing(p) ==
  /\ pc[p] = "pubs_send"
  /\ \E f \in Responses :
       LET a == arg[p]
           message == a.messages[Len(a.messageIds) + 1]
       IN
       IF f # NoFault
         THEN /\ PublishLoop(p, a, Push(a.messageIds, 0), Met(p, f, <<>>, "na"))
              /\ UNCHANGED log
         ELSE /\ Len(log) < MaxLog
              /\ log' = Accepted(a.topicName, BufferFrom(JSONStringify(message.data)),
                                 message.attributes)
              /\ PublishLoop(p, a, Push(a.messageIds, NextMessageId),
                             Met(p, f, <<>>, "na"))
  /\ StoreUnchanged /\ ProcessUnchanged /\ UNCHANGED <<topics, handles, rules, now>>

\* a publish of the batch is answered; the loop goes on, or publishMessages rethrows
PublishesSent(p) ==
  /\ pc[p] = "pubs_send"
  /\ \E f \in Responses :
       LET a == arg[p]
           message == a.messages[Len(a.messageIds) + 1]
       IN
       IF f # NoFault
         THEN /\ Finish(p, Threw(Rethrow(f)))
              /\ gh' = Met(p, f, <<>>, "na")
              /\ UNCHANGED <<arg, log>>
         ELSE /\ Len(log) < MaxLog
              /\ log' = Accepted(a.topicName, BufferFrom(JSONStringify(message.data)),
                                 message.attributes)
              /\ PublishLoop(p, a, Push(a.messageIds, NextMessageId),
                             Met(p, f, <<>>, "na"))
  /\ StoreUnchanged /\ ProcessUnchanged /\ UNCHANGED <<topics, handles, rules, now>>

\* the error the Pub/Sub backend raises for a topic that exists already
AlreadyExists ==
  [name |-> "ServiceError", message |-> <<"6 ALREADY_EXISTS: Resource already exists">>]
CreateResponses == Responses \cup { AlreadyExists }

\* createTopic up to `await this.pubsub.createTopic(topicName)`
CreateTopic(p, topicName) ==
  LET a == [op |-> "createTopic", fileName |-> <<>>, topicName |-> topicName]
  IN /\ Free(p)
     /\ Suspend(p, a, "topic_create")
     /\ StoreUnchanged /\ BusUnchanged /\ ProcessUnchanged /\ UNCHANGED <<rules, now>>

\* this.topics.set(topicName, topic)
SetTopic(topicName, topic) ==
  [t \in DOMAIN topics \cup {topicName} |-> IF t = topicName THEN topic ELSE topics[t]]

TopicCreatedEvicting(p) ==
  /\ pc[p] = "topic_create"
  /\ \E f \in CreateResponses :
       /\ gh' = Met(p, f, <<>>, "na")
       /\ IF f # NoFault
            THEN /\ Finish(p, Threw(Rethrow(f)))
                 /\ topics' = [t \in DOMAIN topics \ {arg[p].topicName} |-> topics[t]]
                 /\ UNCHANGED handles
            ELSE /\ handles < MaxHandles
                 /\ handles' = handles + 1
                 /\ topics' = SetTopic(arg[p].topicName, handles + 1)
                 /\ Finish(p, Ok("void"))
  /\ StoreUnchanged /\ ProcessUnchanged /\ UNCHANGED <<arg, log, rules, now>>

\* the creation is answered: createTopic caches the Topic the backend
\* returned, or rethrows
TopicCreated(p) ==
  /\ pc[p] = "topic_create"
  /\ \E f \in CreateResponses :
       /\ gh' = Met(p, f, <<>>, "na")
       /\ IF f # NoFault
            THEN /\ Finish(p, Threw(Rethrow(f)))
                 /\ UNCHANGED <<topics, handles>>
            ELSE /\ handles < MaxHandles
                 /\ handles' = handles + 1
                 /\ topics' = SetTopic(arg[p].topicName, handles + 1)
                 /\ Finish(p, Ok("void"))
  /\ StoreUnchanged /\ ProcessUnchanged /\ UNCHANGED <<arg, log, rules, now>>

----------------------------------------------------------------------------
\* task-management-service: the HTTP application

\* a request path as its segments: /api is <<"api">>, /api/tasks is <<"api", "tasks">>
Paths == { <<"api">>, <<"api", "tasks">>, <<"api", "other">>, <<"health">> }
Methods == { "GET", "POST" }
ServiceKeys == { Undefined, JsString(""), JsString(AuthKey), JsString("k2") }
AuthKeys == { Undefined, JsString(""), JsString(AuthKey) }

\* c.json(body, status) by the named handler ("none": by no route handler)
Json(status, body, handler) == [status |-> status, body |-> body, handler |-> handler]
NotFound == Json(404, "404 Not Found", "none")
CallNext == [next |-> TRUE]

AuthMiddlewareAnyKey(serviceKey, authKey) ==
  IF Falsy(authKey)
    THEN Json(500, [error |-> "Server configuration error: AUTH_KEY not set"], "none")
  ELSE IF Falsy(serviceKey)
    THEN Json(401, [error |-> "Unauthorized: service_key header is required"], "none")
  ELSE CallNext

\* authMiddleware: the response it returns itself, or CallNext when it
\* reaches `await next()`
AuthMiddleware(serviceKey, authKey) ==
  IF Falsy(authKey)
    THEN Json(500, [error |-> "Server configuration error: AUTH_KEY not set"], "none")
  ELSE IF Falsy(serviceKey)
    THEN Json(401, [error |-> "Unauthorized: service_key header is required"], "none")
  ELSE IF serviceKey # authKey
    THEN Json(401, [error |-> "Unauthorized: invalid service_key"], "none")
  ELSE CallNext

\* the routes of tasksRouter, for a path below /api/tasks
TasksRouter(method, path) ==
  IF path = <<>> /\ method = "GET"
    THEN Json(200, [message |-> "API Router"], "tasks.get")
  ELSE IF path = <<>> /\ method = "POST"
    THEN Json(200, "POST call", "tasks.post")
  ELSE NotFound

\* apiRouter for a path below /api: the middleware, then the routes
ApiRouter(method, path, serviceKey, authKey) ==
  LET auth == AuthMiddleware(serviceKey, authKey)
  IN IF auth # CallNext THEN auth
     ELSE IF path # <<>> /\ Head(path) = "tasks" THEN TasksRouter(method, Tail(path))
     ELSE IF path = <<>> /\ method = "GET"
       THEN Json(200, [message |-> "API Router"], "api.get")
     ELSE NotFound

\* app: /api goes to apiRouter, GET /health answers "ok"
App(method, path, serviceKey, authKey) ==
  IF path # <<>> /\ Head(path) = "api"
    THEN ApiRouter(method, Tail(path), serviceKey, authKey)
  ELSE IF path = <<"health">> /\ method = "GET" THEN Json(200, "ok", "health")
  ELSE NotFound

\* the application receives a request: the routes are matched and the
\* middleware and the handler run, reading the header and AUTH_KEY, up to
\* the first suspension (`await next()` of the middleware, the await of the
\* dispatch); the response is made and not yet given
Request(p, method, path, serviceKey) ==
  LET a == [op |-> "request", fileName |-> <<>>, method |-> method, path |-> path,
            serviceKey |-> serviceKey, authKey |-> env.AUTH_KEY,
            response |-> App(method, path, serviceKey, env.AUTH_KEY)]
  IN /\ Free(p)
     /\ arg' = [arg EXCEPT ![p] = a]
     /\ gh' = [gh EXCEPT ![p] = NoGhost]
     /\ pc' = [pc EXCEPT ![p] = "request_next"]
     /\ res' = [res EXCEPT ![p] = NoRes]
     /\ StoreUnchanged /\ BusUnchanged /\ ProcessUnchanged /\ UNCHANGED <<rules, now>>

\* the pending promises of the request resolve: the response is given
Responded(p) ==
  /\ pc[p] = "request_next"
  /\ Finish(p, Ok(arg[p].response))
  /\ StoreUnchanged /\ BusUnchanged /\ ProcessUnchanged
  /\ UNCHANGED <<arg, gh, rules, now>>

\* time passes
Tick ==
  /\ now < MaxNow * MsPerMinute
  /\ now' = now + MsPerMinute
  /\ StoreUnchanged /\ BusUnchanged /\ ProcessUnchanged /\ UNCHANGED <<rules, pc, arg, res, gh>>

----------------------------------------------------------------------------
\* Scenario 1: two concurrent callers of the object operations on one bucket

AnObject == [content |-> <<60>>, contentType |-> "text/plain",
             customTime |-> ToISOString(0)]
EmptyBucket == [k \in FileNames |-> NoObject]
InitialBuckets == { EmptyBucket, [EmptyBucket EXCEPT ![<<32, 97>>] = AnObject] }

InitCallers(ids) ==
  /\ pc = [p \in ids |-> "idle"]
  /\ arg = [p \in ids |-> NoArg]
  /\ res = [p \in ids |-> NoRes]
  /\ gh = [p \in ids |-> NoGhost]

InitTopics ==
  /\ topics = [t \in {} |-> 0]
  /\ handles = 0
  /\ log = <<>>

InitBus == InitTopics /\ InitProcess

InitStore ==
  /\ store \in InitialBuckets
  /\ hist = [k \in FileNames |-> NoWrite]
  /\ rules = <<>>
  /\ now = 0
  /\ InitBus
  /\ InitCallers({"c1", "c2"})

NextStore ==
  \/ \E p \in Callers, k \in FileNames, c \in Contents,
        t \in ArgContentTypes, d \in ArgExpirationDays : UploadObject(p, k, c, t, d)
  \/ \E p \in Callers : UploadSaved(p)
  \/ \E p \in Callers, k \in FileNames : GetObject(p, k)
  \/ \E p \in Callers : GetExists(p)
  \/ \E p \in Callers : GetDownload(p)
  \/ \E p \in Callers, k \in FileNames : DeleteObject(p, k)
  \/ \E p \in Callers : DeleteDeleted(p)
  \/ \E p \in Callers, k \in FileNames : ObjectExists(p, k)
  \/ \E p \in Callers : ExistsAnswered(p)

SpecStore == InitStore /\ [][NextStore]_vars

----------------------------------------------------------------------------
\* Scenario 2: setupAutoDelete, by one caller (calls follow one another) and
\* by two callers (calls interleave at their awaits)

InitialRules ==
  { <<>>,
    <<AgeRule("Delete", 30)>>,
    <<CustomTimeRule("Delete", 30)>>,
    <<CustomTimeRule("SetStorageClass", 30)>> }

InitSetup(ids) ==
  /\ store = EmptyBucket
  /\ hist = [k \in FileNames |-> NoWrite]
  /\ rules \in InitialRules
  /\ now = 0
  /\ InitBus
  /\ InitCallers(ids)

NextSetup ==
  \/ \E p \in Callers, d \in ArgDaysBeforeDeletion : SetupAutoDelete(p, d)
  \/ \E p \in Callers : SetupMetadata(p)
  \/ \E p \in Callers : SetupAdded(p)

SpecSetupSeq == InitSetup({"c1"}) /\ [][NextSetup]_vars
SpecSetup == InitSetup({"c1", "c2"}) /\ [][NextSetup]_vars

----------------------------------------------------------------------------
\* Scenario 3: one caller of every GCSService operation, on the instance of
\* either bucket, while time passes

InitGateway ==
  /\ store \in InitialBuckets
  /\ hist = [k \in FileNames |-> NoWrite]
  /\ rules \in { <<>>, <<CustomTimeRule("Delete", 30)>> }
  /\ now = 0
  /\ InitTopics
  /\ \E b \in BucketNames : InitProcessFor(b)
  /\ InitCallers({"c1"})

NextGateway ==
  \/ \E p \in Callers, k \in FileNames, c \in Contents,
        t \in ArgContentTypes, d \in ArgExpirationDays : UploadObject(p, k, c, t, d)
  \/ \E p \in Callers : UploadSaved(p)
  \/ \E p \in Callers, k \in FileNames : GetObject(p, k)
  \/ \E p \in Callers : GetExists(p)
  \/ \E p \in Callers : GetDownload(p)
  \/ \E p \in Callers, k \in FileNames : DeleteObject(p, k)
  \/ \E p \in Callers : DeleteDeleted(p)
  \/ \E p \in Callers, k \in FileNames : ObjectExists(p, k)
  \/ \E p \in Callers : ExistsAnswered(p)
  \/ \E p \in Callers, args \in SignArguments : CreateSignedUrl(p, args)
  \/ \E p \in Callers : SignAnswered(p)
  \/ \E p \in Callers, d \in ArgDaysBeforeDeletion : SetupAutoDelete(p, d)
  \/ \E p \in Callers : SetupMetadata(p)
  \/ \E p \in Callers : SetupAdded(p)
  \/ Tick

SpecGateway == InitGateway /\ [][NextGateway]_vars

----------------------------------------------------------------------------
\* Scenario 4: two concurrent callers of the publish operations

InitPublish ==
  /\ store = EmptyBucket
  /\ hist = [k \in FileNames |-> NoWrite]
  /\ rules = <<>>
  /\ now = 0
  /\ InitBus
  /\ InitCallers({"c1", "c2"})

NextPublish ==
  \/ \E p \in Callers, t \in TopicNames, ms \in Batches : PublishMessages(p, t, ms)
  \/ \E p \in Callers : PublishesSent(p)

SpecPublish == InitPublish /\ [][NextPublish]_vars

----------------------------------------------------------------------------
\* Scenario 5: one caller of every PubSubManager operation

NextBus ==
  \/ \E p \in Callers, t \in TopicNames, m \in Payloads,
        at \in {NoAttributes, SomeAttributes} : PublishMessage(p, t, m, at)
  \/ \E p \in Callers : PublishSent(p)
  \/ \E p \in Callers, t \in TopicNames, ms \in Batches : PublishMessages(p, t, ms)
  \/ \E p \in Callers : PublishesSent(p)
  \/ \E p \in Callers, t \in TopicNames : CreateTopic(p, t)
  \/ \E p \in Callers : TopicCreated(p)

InitBusCaller ==
  /\ store = EmptyBucket
  /\ hist = [k \in FileNames |-> NoWrite]
  /\ rules = <<>>
  /\ now = 0
  /\ InitBus
  /\ InitCallers({"c1"})

SpecBus == InitBusCaller /\ [][NextBus]_vars

----------------------------------------------------------------------------
\* Scenario 6: two concurrent callers that publish to two topics

ResolveTopicNames == { "tasks", "results" }
ResolveBatches == SeqsUpTo({ Message(Num(1), NoAttributes) }, MaxBatch)

NextResolve ==
  \/ \E p \in Callers, t \in ResolveTopicNames, m \in { Num(1), Undef } :
        PublishMessage(p, t, m, NoAttributes)
  \/ \E p \in Callers : PublishSent(p)
  \/ \E p \in Callers, t \in ResolveTopicNames, ms \in ResolveBatches :
        PublishMessages(p, t, ms)
  \/ \E p \in Callers : PublishesSent(p)

SpecResolve == InitPublish /\ [][NextResolve]_vars

----------------------------------------------------------------------------
\* Scenario 7: three callers of GCSService.getInstance in a process that starts
\* without an instance, while GCS_BUCKET_NAME is set and unset

InitInstance ==
  /\ store = EmptyBucket
  /\ hist = [k \in FileNames |-> NoWrite]
  /\ rules = <<>>
  /\ now = 0
  /\ topics = [t \in {} |-> 0]
  /\ handles = 0
  /\ log = <<>>
  /\ env \in [GCS_BUCKET_NAME : EnvValues, AUTH_KEY : {JsString(AuthKey)}]
  /\ instance = NoInstance
  /\ constructed = 0
  /\ InitCallers({"c1", "c2", "c3"})

NextInstance ==
  \/ \E p \in Callers : GetInstance(p)
  \/ \E v \in EnvValues : SetEnv("GCS_BUCKET_NAME", v)

SpecInstance == InitInstance /\ [][NextInstance]_vars

----------------------------------------------------------------------------
\* Scenario 8: two clients' requests to the HTTP application, in flight
\* together, while AUTH_KEY is set and unset

InitApi ==
  /\ store = EmptyBucket
  /\ hist = [k \in FileNames |-> NoWrite]
  /\ rules = <<>>
  /\ now = 0
  /\ topics = [t \in {} |-> 0]
  /\ handles = 0
  /\ log = <<>>
  /\ env \in [GCS_BUCKET_NAME : {Undefined}, AUTH_KEY : AuthKeys]
  /\ instance = NoInstance
  /\ constructed = 0
  /\ InitCallers({"c1", "c2"})

NextApi ==
  \/ \E p \in Callers, m \in Methods, path \in Paths, k \in ServiceKeys :
        Request(p, m, path, k)
  \/ \E p \in Callers : Responded(p)
  \/ \E v \in AuthKeys : SetEnv("AUTH_KEY", v)

SpecApi == InitApi /\ [][NextApi]_vars

----------------------------------------------------------------------------
\* Scenario 9: one caller of the operations that change the backend

NextMutations ==
  \/ \E p \in Callers, k \in FileNames, c \in Contents,
        t \in ArgContentTypes, d \in ArgExpirationDays : UploadObject(p, k, c, t, d)
  \/ \E p \in Callers : UploadSaved(p)
  \/ \E p \in Callers, k \in FileNames : DeleteObject(p, k)
  \/ \E p \in Callers : DeleteDeleted(p)
  \/ \E p \in Callers, d \in ArgDaysBeforeDeletion : SetupAutoDelete(p, d)
  \/ \E p \in Callers : SetupMetadata(p)
  \/ \E p \in Callers : SetupAdded(p)
  \/ \E p \in Callers, t \in TopicNames, m \in { Num(1), Undef } :
        PublishMessage(p, t, m, NoAttributes)
  \/ \E p \in Callers : PublishSent(p)
  \/ \E p \in Callers, t \in TopicNames, ms \in ResolveBatches :
        PublishMessages(p, t, ms)
  \/ \E p \in Callers : PublishesSent(p)

SpecMutations == InitBusCaller /\ [][NextMutations]_vars

----------------------------------------------------------------------------
\* Scenario 10: two concurrent callers of uploadObject, while time passes

NextUploads ==
  \/ \E p \in Callers, k \in FileNames, c \in Contents,
        t \in ArgContentTypes, d \in ArgExpirationDays : UploadObject(p, k, c, t, d)
  \/ \E p \in Callers : UploadSaved(p)
  \/ Tick

InitUploads ==
  /\ store = EmptyBucket
  /\ hist = [k \in FileNames |-> NoWrite]
  /\ rules = <<>>
  /\ now = 0
  /\ InitBus
  /\ InitCallers({"c1", "c2"})

SpecUploads == InitUploads /\ [][NextUploads]_vars

----------------------------------------------------------------------------
\* Scenario 11: one caller that publishes to and creates two topics

NextTopics ==
  \/ \E p \in Callers, t \in ResolveTopicNames, m \in { Num(1), Undef } :
        PublishMessage(p, t, m, NoAttributes)
  \/ \E p \in Callers : PublishSent(p)
  \/ \E p \in Callers, t \in ResolveTopicNames, ms \in ResolveBatches :
        PublishMessages(p, t, ms)
  \/ \E p \in Callers : PublishesSent(p)
  \/ \E p \in Callers, t \in ResolveTopicNames : CreateTopic(p, t)
  \/ \E p \in Callers : TopicCreated(p)

SpecTopics == InitBusCaller /\ [][NextTopics]_vars

----------------------------------------------------------------------------
\* Properties

Done(p, op) == pc[p] = "done" /\ arg[p].op = op

\* a file name that is empty or made of white space only
Blank(fileName) == \A i \in 1..Len(fileName) : fileName[i] \in WhiteSpace

\* the code points a UTF-8 byte sequence stands for
RECURSIVE Utf8Decode(_)
Utf8Decode(bs) ==
  IF bs = <<>> THEN <<>>
  ELSE IF bs[1] < 128 THEN <<bs[1]>> \o Utf8Decode(Tail(bs))
  ELSE IF bs[1] < 224
    THEN <<(bs[1] - 192) * 64 + (bs[2] - 128)>> \o Utf8Decode(SubSeq(bs, 3, Len(bs)))
  ELSE IF bs[1] < 240
    THEN <<(bs[1] - 224) * 4096 + (bs[2] - 128) * 64 + (bs[3] - 128)>>
           \o Utf8Decode(SubSeq(bs, 4, Len(bs)))
  ELSE <<(bs[1] - 240) * 262144 + (bs[2] - 128) * 4096
           + (bs[3] - 128) * 64 + (bs[4] - 128)>>
         \o Utf8Decode(SubSeq(bs, 5, Len(bs)))

\* bytes are the bytes of the uploaded content
BytesOf(bytes, content) ==
  IF content.t = "string" THEN Utf8Decode(bytes) = content.v ELSE bytes = content.v

\* C1: when the last write of a file name is a successful uploadObject and
\* nothing has written the name since a getObject of it began, the bucket holds
\* the uploaded bytes under the uploaded content type and the getObject, unless
\* a backend request of its own failed, returns exactly the uploaded bytes -
\* also when the upload replaced an object
RoundTrip ==
  \A p \in Callers :
    LET k == arg[p].fileName IN
    (Done(p, "getObject") /\ ~Blank(k) /\ gh[p].clean /\ hist[k].w = "upload")
      => /\ BytesOf(store[k].content, hist[k].content)
         /\ store[k].contentType = hist[k].contentType
         /\ (~gh[p].fault =>
               res[p].kind = "ok" /\ BytesOf(res[p].val, hist[k].content))

RoundTripReached ==
  \E p \in Callers :
    LET k == arg[p].fileName IN
    /\ Done(p, "getObject") /\ ~Blank(k) /\ gh[p].clean /\ ~gh[p].fault
    /\ hist[k].w = "upload" /\ hist[k].replaced
    /\ hist[k].content.t = "string" /\ hist[k].contentType = "image/svg+xml"
    /\ res[p] = Ok(<<195, 169, 226, 130, 172>>)

\* C2: when the last write of a file name is a deleteObject the backend has
\* answered (it removed the object, or rejected the delete because there was
\* none) and nothing has written the name since an objectExists of it began,
\* that objectExists returns false
DeleteThenExists ==
  \A p \in Callers :
    LET k == arg[p].fileName IN
    (Done(p, "objectExists") /\ ~Blank(k) /\ gh[p].clean /\ hist[k].w = "delete")
      => res[p] = Ok(FALSE)

DeleteThenExistsReached ==
  \E p \in Callers :
    LET k == arg[p].fileName IN
    /\ Done(p, "objectExists") /\ ~Blank(k) /\ gh[p].clean /\ ~gh[p].fault
    /\ hist[k] = [w |-> "delete", was |-> "present"]
    /\ res[p] = Ok(FALSE)

\* the deletion-by-custom-time rules, and all rules conditioned on custom time
DeleteByCustomTime ==
  { i \in 1..Len(rules) :
      /\ "daysSinceCustomTime" \in DOMAIN rules[i].condition
      /\ rules[i].action.type = "Delete" }
ByCustomTime ==
  { i \in 1..Len(rules) : "daysSinceCustomTime" \in DOMAIN rules[i].condition }

\* C3: when a caller's setupAutoDelete(d1) began on a bucket without a
\* custom-time rule and reported success, and the same caller's next call is
\* setupAutoDelete(d2) with d2 > 0, then that call, unless a backend request of
\* its own failed, reports success too and the bucket has exactly one
\* deletion-by-custom-time rule
SetupTwice ==
  \A p \in Callers :
    (/\ Done(p, "setupAutoDelete") /\ arg[p].daysBeforeDeletion > 0
     /\ gh[p].prior > 0 /\ gh[p].priorFresh /\ ~gh[p].fault)
      => res[p] = Ok("void") /\ Cardinality(DeleteByCustomTime) = 1

SetupTwiceReached ==
  \E p \in Callers :
    /\ Done(p, "setupAutoDelete") /\ arg[p].daysBeforeDeletion = 30
    /\ gh[p].prior = DefaultDaysBeforeDeletion /\ gh[p].priorFresh /\ ~gh[p].fault
    /\ res[p] = Ok("void")
    /\ rules = <<AgeRule("Delete", 30), CustomTimeRule("Delete", DefaultDaysBeforeDeletion)>>

\* C4: the bucket never holds more than one lifecycle rule conditioned on
\* daysSinceCustomTime, however setupAutoDelete calls interleave
AtMostOneCustomTimeRule == Cardinality(ByCustomTime) <= 1

\* the arguments of a call that violate its documented preconditions
InvalidArguments(a) ==
  \/ a.op = "uploadObject" /\ (Blank(a.fileName) \/ a.expirationDays < 0)
  \/ a.op = "createSignedUrl" /\ (a.fileName = <<>> \/ a.expirationMinutes <= 0)
  \/ a.op = "setupAutoDelete" /\ a.daysBeforeDeletion <= 0

ValidationErrors ==
  { Error(<<m>>) : m \in { "fileName cannot be empty",
                           "expirationDays must be a positive number",
                           "expirationMinutes must be a positive number",
                           "daysBeforeDeletion must be a positive number" } }

\* C5: a call of uploadObject, createSignedUrl or setupAutoDelete with invalid
\* arguments has thrown a validation error and has issued no backend request,
\* no object is stored under an empty or whitespace-only name, and the step
\* that rejects a call leaves the objects and the lifecycle rules as they were
ValidationFirst ==
  /\ [](\A p \in Callers :
          InvalidArguments(arg[p])
            => /\ pc[p] = "done"
               /\ res[p].kind = "throw" /\ res[p].err \in ValidationErrors
               /\ gh[p].reqs = 0)
  /\ [](\A k \in FileNames : Blank(k) => store[k] = NoObject)
  /\ [][\A p \in Callers :
          (pc'[p] = "done" /\ InvalidArguments(arg'[p]))
            => store' = store /\ rules' = rules]_vars

ValidationFirstReached ==
  \E p \in Callers :
    /\ Done(p, "uploadObject") /\ arg[p].fileName = <<32, 9>>
    /\ arg[p].expirationDays = 0
    /\ res[p] = Threw(Error(<<"fileName cannot be empty">>))
    /\ store[<<32, 97>>] # NoObject /\ rules # <<>>

\* the value of a hexadecimal digit, and of the escape \uXXXX
HexValue(c) == IF c < 58 THEN c - 48 ELSE c - 87
EscapeValue(s) ==
  HexValue(s[3]) * 4096 + HexValue(s[4]) * 256 + HexValue(s[5]) * 16 + HexValue(s[6])

\* the character a two-character escape of a JSON string stands for
Escaped(c) ==
  IF c = 98 THEN 8 ELSE IF c = 116 THEN 9 ELSE IF c = 110 THEN 10
  ELSE IF c = 102 THEN 12 ELSE IF c = 114 THEN 13 ELSE c

\* the string the characters between the quotes of a JSON string stand for
RECURSIVE Unquote(_)
Unquote(s) ==
  IF s = <<>> THEN <<>>
  ELSE IF s[1] # 92 THEN <<s[1]>> \o Unquote(Tail(s))
  ELSE IF s[2] = 117 THEN <<EscapeValue(s)>> \o Unquote(SubSeq(s, 7, Len(s)))
  ELSE <<Escaped(s[2])>> \o Unquote(SubSeq(s, 3, Len(s)))

\* the natural number a sequence of decimal digits stands for
RECURSIVE Decimal(_)
Decimal(ds) ==
  IF ds = <<>> THEN 0
  ELSE Decimal(SubSeq(ds, 1, Len(ds) - 1)) * 10 + (ds[Len(ds)] - 48)

\* the payload a published JSON text, given as its UTF-8 bytes, stands for
ParseJSON(bytes) ==
  LET text == Utf8Decode(bytes) IN
  IF text[1] = 34 THEN Str(Unquote(SubSeq(text, 2, Len(text) - 1)))
  ELSE IF text[1] = 45 THEN Num(0 - Decimal(Tail(text)))
  ELSE Num(Decimal(text))

\* the backend holds input message i of caller p's batch under message ID id
PublishedAs(p, i, id) ==
  /\ id \in 1..Len(log)
  /\ log[id].topic = arg[p].topicName
  /\ ParseJSON(log[id].data) = arg[p].messages[i].data
  /\ log[id].attributes = arg[p].messages[i].attributes

\* a publishMessages call that has ended in failure; it failed at message FailedAt
Failed(p) == Done(p, "publishMessages") /\ res[p].kind = "throw"
FailedAt(p) == Len(arg[p].messageIds) + 1

\* messages 1..K-1 of a failed batch are on the topic, and no ID list is returned
PrefixStays(p) ==
  /\ FailedAt(p) \in 1..Len(arg[p].messages)
  /\ \A i \in 1..(FailedAt(p) - 1) : PublishedAs(p, i, arg[p].messageIds[i])

\* C6 as stated: when publishMessages fails at message K, messages 1..K-1 stay
\* published, no ID list is returned, and the failure reported tells K: two
\* calls that failed at different messages report different failures
FailureNamesTheMessage ==
  /\ \A p \in Callers : Failed(p) => PrefixStays(p)
  /\ \A p, q \in Callers :
       (Failed(p) /\ Failed(q) /\ FailedAt(p) # FailedAt(q)) => res[p] # res[q]

\* C6 as amended: when publishMessages fails at message K, messages 1..K-1 stay
\* published, no ID list is returned, and the call throws the error raised by
\* the send of message K itself, unchanged: the backend's error, or the
\* TypeError of a payload without JSON text
FailureIsTheSendError ==
  \A p \in Callers :
    Failed(p)
      => /\ PrefixStays(p)
         /\ IF gh[p].fault
              THEN res[p].err \in BackendFaults
              ELSE /\ res[p].err = NotAString
                   /\ arg[p].messages[FailedAt(p)].data = Undef

FailureIsTheSendErrorReached ==
  \E p \in Callers :
    /\ Failed(p) /\ gh[p].fault /\ FailedAt(p) = 2 /\ Len(arg[p].messages) = 2
    /\ Len(log) = 1 /\ PublishedAs(p, 1, 1)

\* C7: a publishMessages call whose sends all succeed returns one ID per input
\* message, the i-th being the ID under which the backend holds the i-th
\* message, in input order; while it runs it has exactly one send outstanding,
\* the one after the IDs collected so far
InOrder ==
  \A p \in Callers :
    /\ pc[p] = "pubs_send" => gh[p].reqs = Len(arg[p].messageIds) + 1
    /\ (Done(p, "publishMessages") /\ ~gh[p].fault
          /\ \A i \in 1..Len(arg[p].messages) : arg[p].messages[i].data # Undef)
         => res[p].kind = "ok"
    /\ (Done(p, "publishMessages") /\ res[p].kind = "ok")
         => /\ Len(res[p].val) = Len(arg[p].messages)
            /\ \A i \in 1..Len(res[p].val) : PublishedAs(p, i, res[p].val[i])
            /\ \A i, j \in 1..Len(res[p].val) : i < j => res[p].val[i] < res[p].val[j]

InOrderReached ==
  \E p \in Callers :
    /\ Done(p, "publishMessages") /\ res[p] = Ok(<<1, 3>>)
    /\ arg[p].messages[1] # arg[p].messages[2]

\* C8: objectExists of a usable file name returns, never throws: true when the
\* check found the object, false when it found none and false when the check
\* failed; every other GCSService operation throws when a backend request of
\* it failed
ExistsNeverThrows ==
  \A p \in Callers :
    /\ (Done(p, "objectExists") /\ ~Blank(arg[p].fileName))
         => res[p] = Ok(gh[p].seen = "present")
    /\ (pc[p] = "done" /\ arg[p].op # "objectExists" /\ gh[p].fault)
         => res[p].kind = "throw"

ExistsNeverThrowsReached ==
  \E p \in Callers :
    /\ Done(p, "objectExists") /\ gh[p].fault /\ res[p] = Ok(FALSE)
    /\ store[arg[p].fileName] # NoObject

\* C9: a getObject that found no object fails with an error of another kind
\* than a getObject whose backend request failed
NotFoundIsDistinct ==
  \A p, q \in Callers :
    (/\ Done(p, "getObject") /\ gh[p].seen = "absent"
     /\ Done(q, "getObject") /\ gh[q].fault)
      => /\ res[p].kind = "throw" /\ res[q].kind = "throw"
         /\ res[p].err.name # res[q].err.name

\* C10: deleteObject of a name that has no object throws the "Failed to delete
\* object" error and leaves the bucket as it was
DeleteAbsentFails ==
  [][\A p \in Callers :
       (pc[p] = "delete_delete" /\ pc'[p] = "done"
          /\ store[arg[p].fileName] = NoObject)
         => /\ res'[p].kind = "throw"
            /\ res'[p].err.name = "Error"
            /\ Head(res'[p].err.message) = "Failed to delete object: "
            /\ store' = store]_vars

DeleteAbsentFailsReached ==
  \E p \in Callers :
    /\ Done(p, "deleteObject") /\ gh[p].seen = "absent" /\ gh[p].clean
    /\ hist[arg[p].fileName] = [w |-> "delete", was |-> "absent"]
    /\ res[p].kind = "throw"
    /\ \E q \in Callers : Done(q, "deleteObject") /\ res[q] = Ok("void")

\* the grant a createSignedUrl call asks for: the action and the minutes of
\* its argument list, read and 60 minutes where the list leaves them out
AskedAction(args) ==
  IF Len(args) = 3 /\ args[3] # Undefined THEN args[3].v ELSE "read"
AskedMinutes(args) == IF Len(args) >= 2 THEN args[2] ELSE 60

\* C11: a createSignedUrl of a usable file name with expirationMinutes > 0
\* issues one signing request, for that file, for exactly the action asked
\* for and with an expiry of the call's Date.now() plus expirationMinutes *
\* 60 * 1000 ms, never earlier; unless the request fails it returns the URL
\* signed for these options; a call without the optional arguments asks for a
\* read grant of 60 minutes
SignedGrant ==
  \A p \in Callers :
    LET a == arg[p] IN
    /\ (pc[p] \in {"sign_url", "done"} /\ a.op = "createSignedUrl"
          /\ ~Blank(a.fileName) /\ a.expirationMinutes > 0)
         => /\ gh[p].reqs = 1
            /\ a.fileName = a.args[1]
            /\ a.options.action = AskedAction(a.args)
            /\ a.options.expires = a.at + AskedMinutes(a.args) * 60 * 1000
            /\ a.options.expires >= a.at + AskedMinutes(a.args) * 60 * 1000
            /\ (pc[p] = "done" /\ ~gh[p].fault)
                 => res[p] = Ok([bucket |-> instance.bucketName, fileName |-> a.args[1],
                                 options |-> a.options])
    /\ (Done(p, "createSignedUrl") /\ res[p].kind = "ok")
         => ~Blank(a.fileName) /\ a.expirationMinutes > 0

SignedGrantReached ==
  \E p \in Callers :
    /\ Done(p, "createSignedUrl") /\ res[p].kind = "ok"
    /\ Len(arg[p].args) = 1 /\ arg[p].at = 60000
    /\ res[p].val.options = [version |-> "v4", action |-> "read", expires |-> 3660000]

\* a finished call of one of the PubSubManager operations
BusDone(p) ==
  pc[p] = "done" /\ arg[p].op \in {"publishMessage", "publishMessages", "createTopic"}

\* C12: a publishMessage that succeeds returns the ID under which the backend
\* holds the message; a publishMessage, publishMessages or createTopic that
\* fails throws a PublishError that carries the cause, never the error the
\* backend (or the serialisation) raised itself
PublishErrorsWrapped ==
  \A p \in Callers :
    /\ (Done(p, "publishMessage") /\ res[p].kind = "ok")
         => /\ res[p].val \in 1..Len(log)
            /\ log[res[p].val].topic = arg[p].topicName
            /\ ParseJSON(log[res[p].val].data) = arg[p].message
            /\ log[res[p].val].attributes = arg[p].attributes
    /\ (BusDone(p) /\ res[p].kind = "throw")
         => /\ res[p].err.name = "PublishError"
            /\ "cause" \in DOMAIN res[p].err
            /\ res[p].err \notin CreateResponses \cup {NotAString}

\* the operations of GCSService that rethrow, and the prefix each puts before
\* the message of the error it caught
Rethrowing ==
  {"uploadObject", "getObject", "deleteObject", "createSignedUrl", "setupAutoDelete"}
PrefixOf(op) ==
  CASE op = "uploadObject" -> "Failed to upload object: "
    [] op = "getObject" -> "Failed to get object: "
    [] op = "deleteObject" -> "Failed to delete object: "
    [] op = "createSignedUrl" -> "Failed to create signed URL: "
    [] op = "setupAutoDelete" -> "Failed to setup auto-delete: "

\* C13: a call of uploadObject, getObject, deleteObject, createSignedUrl or
\* setupAutoDelete that met a backend failure has not returned a value: it
\* has thrown a plain Error whose message is the prefix of the operation
\* followed by the message of the backend's error; and whatever a call of
\* these operations throws after a backend request, it is an Error with
\* that prefix, never the backend's own error object
BackendErrorsWrapped ==
  \A p \in Callers :
    LET a == arg[p] IN
    (pc[p] = "done" /\ a.op \in Rethrowing)
      => /\ gh[p].fault
              => /\ res[p].kind = "throw"
                 /\ \E f \in BackendFaults :
                      /\ res[p].err.name = "Error"
                      /\ res[p].err.message = <<PrefixOf(a.op)>> \o f.message
         /\ (res[p].kind = "throw" /\ gh[p].reqs > 0)
              => /\ res[p].err.name = "Error"
                 /\ Head(res[p].err.message) = PrefixOf(a.op)
                 /\ res[p].err \notin BackendFaults \cup {NoSuchObject(a.fileName)}

BackendErrorsWrappedReached ==
  \E p \in Callers :
    /\ Done(p, "setupAutoDelete") /\ gh[p].fault /\ gh[p].reqs = 2
    /\ res[p] = Threw(Error(<<"Failed to setup auto-delete: ", "503 Service Unavailable">>))
    /\ rules = <<>>

\* a call of publishMessage or publishMessages, running or finished
Publishing(p) == arg[p].op \in {"publishMessage", "publishMessages"}

\* C14: however publishMessage and publishMessages calls interleave, one
\* Topic handle has been constructed for every name resolved so far and none
\* besides, different names have different handles, every call publishes
\* through the handle the cache holds for its topic name (so two calls on
\* one name share one handle), and a name that has a handle keeps it
ResolvedOnce ==
  /\ [](/\ handles = Cardinality(DOMAIN topics)
        /\ \A t, u \in DOMAIN topics : topics[t] = topics[u] => t = u
        /\ \A p \in Callers :
             Publishing(p)
               => /\ arg[p].topicName \in DOMAIN topics
                  /\ arg[p].topic = topics[arg[p].topicName])
  /\ [][\A t \in DOMAIN topics :
          t \in DOMAIN topics' /\ topics'[t] = topics[t]]_vars

ResolvedOnceReached ==
  /\ DOMAIN topics = ResolveTopicNames
  /\ pc["c1"] = "pub_send" /\ pc["c2"] = "pubs_send"
  /\ arg["c1"].topicName = arg["c2"].topicName
  /\ arg["c1"].topic = 2 /\ arg["c2"].topic = 2
  /\ \E i \in 1..Len(log) : log[i].topic # arg["c1"].topicName

\* caller p has just finished a call
Returned(p) == pc'[p] = "done" /\ <<pc[p], arg[p], res[p]>> # <<pc'[p], arg'[p], res'[p]>>

\* C15: the GCSService constructor has completed at most once; a getInstance
\* that succeeded has returned the one instance there is, with the bucket name
\* it was constructed with, and that instance is never replaced nor changed,
\* whatever happens to GCS_BUCKET_NAME afterwards; a getInstance called while
\* there is no instance and GCS_BUCKET_NAME is unset or empty throws and
\* leaves the process without an instance
SingleInstance ==
  /\ [](/\ constructed <= 1
        /\ instance # NoInstance <=> constructed = 1
        /\ \A p \in Callers :
             Done(p, "getInstance")
               => \/ res[p] = Ok(instance) /\ instance # NoInstance
                  \/ res[p] = Threw(Error(
                         <<"GCS_BUCKET_NAME environment variable is required">>)))
  /\ [][instance # NoInstance => instance' = instance]_vars
  /\ [][\A p \in Callers :
          (Returned(p) /\ instance = NoInstance
             /\ env.GCS_BUCKET_NAME \in {Undefined, JsString("")})
            => res'[p].kind = "throw" /\ instance' = NoInstance]_vars

SingleInstanceReached ==
  /\ Done("c1", "getInstance") /\ res["c1"].kind = "throw"
  /\ Done("c2", "getInstance") /\ res["c2"] = Ok(instance)
  /\ instance.bucketName = BucketName
  /\ env.GCS_BUCKET_NAME = JsString(OtherBucketName)

\* the response to an answered request, and whether a route handler made it
Response(p) == res[p].val
Handled(p) == Response(p).handler # "none"

\* a request to a path under /api
UnderApi(p) == arg[p].path # <<>> /\ arg[p].path[1] = "api"

\* C16: a request under /api was answered by a route handler only when
\* AUTH_KEY was set and the service_key header equal to it; when AUTH_KEY was
\* unset the response is 500 whatever the header, else 401 when the header
\* was missing and 401 when it differed, and in these three cases no route
\* handler ran; with the right key the routed paths are answered by their
\* handlers
AuthBeforeDispatch ==
  \A p \in Callers :
    (Done(p, "request") /\ UnderApi(p))
      => LET a == arg[p]
             unset == a.authKey \in {Undefined, JsString("")}
             missing == a.serviceKey \in {Undefined, JsString("")}
         IN /\ Handled(p) => ~unset /\ a.serviceKey = a.authKey
            /\ unset => Response(p).status = 500 /\ ~Handled(p)
            /\ (~unset /\ missing) => Response(p).status = 401 /\ ~Handled(p)
            /\ (~unset /\ ~missing /\ a.serviceKey # a.authKey)
                 => Response(p).status = 401 /\ ~Handled(p)
            /\ (~unset /\ a.serviceKey = a.authKey)
                 => /\ Response(p).status \in {200, 404}
                    /\ Handled(p) <=> Response(p).status = 200
                    /\ (a.path = <<"api", "tasks">>) => Handled(p)

AuthBeforeDispatchReached ==
  \E p \in Callers :
    /\ Done(p, "request") /\ arg[p].path = <<"api", "tasks">> /\ arg[p].method = "POST"
    /\ arg[p].serviceKey = JsString("k2") /\ arg[p].authKey = JsString(AuthKey)
    /\ Response(p).status = 401 /\ ~Handled(p)
    /\ Response(p).body = [error |-> "Unauthorized: invalid service_key"]
    /\ env.AUTH_KEY = Undefined

\* the operations that ask the backend to change something
Mutating ==
  {"uploadObject", "deleteObject", "setupAutoDelete", "publishMessage", "publishMessages"}

\* the most backend requests one call may have issued: the save, the delete,
\* getMetadata and one addLifecycleRule, the publish, and for a batch one
\* publish per message published so far and one for the message after them
MostRequests(a) ==
  CASE a.op \in {"uploadObject", "deleteObject", "publishMessage"} -> 1
    [] a.op = "setupAutoDelete" -> 2
    [] a.op = "publishMessages" ->
         IF Len(a.messageIds) < Len(a.messages)
           THEN Len(a.messageIds) + 1 ELSE Len(a.messages)

\* C17: no call has issued more backend requests than one attempt of each of
\* its mutations takes, and a call that has met a failed request has ended
\* and has thrown
NoRetry ==
  \A p \in Callers :
    (arg[p].op \in Mutating /\ pc[p] # "idle")
      => /\ gh[p].reqs <= MostRequests(arg[p])
         /\ gh[p].fault => pc[p] = "done" /\ res[p].kind = "throw"

NoRetryReached ==
  \E p \in Callers :
    /\ Done(p, "publishMessages") /\ gh[p].fault /\ gh[p].reqs = 2
    /\ Len(arg[p].messages) = 2 /\ Len(log) = 1
    /\ store[<<32, 97>>] # NoObject /\ rules # <<>>

\* the arguments of two uploadObject calls differ in expirationDays only, and
\* the calls were made at the same time
DifferInDaysOnly(a, b, ta, tb) ==
  /\ a.fileName = b.fileName /\ a.content = b.content
  /\ a.contentType = b.contentType /\ ta = tb
  /\ a.expirationDays # b.expirationDays

\* C18: an uploadObject call stamps customTime with the time of the call,
\* whatever its expirationDays; the save that is served writes the bytes,
\* the content type and that customTime under the file name and leaves every
\* other object and the lifecycle rules alone; so two accepted uploads that
\* differ only in expirationDays (0 included) write the same object
DaysDoNotMatter ==
  /\ [](\A p, q \in Callers :
          (/\ pc[p] = "upload_save" /\ pc[q] = "upload_save"
           /\ DifferInDaysOnly(arg[p], arg[q], arg[p].customTime, arg[q].customTime))
            => SavedObject(arg[p]) = SavedObject(arg[q]))
  /\ [][\A p \in Callers :
          (pc[p] # "upload_save" /\ pc'[p] = "upload_save")
            => /\ arg'[p].expirationDays >= 0
               /\ arg'[p].customTime = <<"iso", now>>]_vars
  /\ [][\A p \in Callers :
          (pc[p] = "upload_save" /\ pc'[p] = "done" /\ res'[p].kind = "ok")
            => /\ store' = [store EXCEPT ![arg[p].fileName] =
                              [content |-> ToBytes(arg[p].content),
                               contentType |-> arg[p].contentType,
                               customTime |-> arg[p].customTime]]
               /\ rules' = rules]_vars

DaysDoNotMatterReached ==
  /\ pc["c1"] = "upload_save" /\ pc["c2"] = "upload_save"
  /\ DifferInDaysOnly(arg["c1"], arg["c2"], now, now)
  /\ arg["c1"].expirationDays = 0 /\ arg["c2"].expirationDays = DefaultExpirationDays
  /\ arg["c1"].customTime = <<"iso", 60000>> /\ arg["c2"].customTime = <<"iso", 60000>>

\* C19: when getMetadata is answered to a setupAutoDelete(d2), d2 > 0, while
\* the bucket has a deletion-by-custom-time rule for another number of days,
\* the call ends there with success, without an addLifecycleRule request, and
\* the lifecycle rules, the day count of that rule included, stay as they are
OtherDaysCountAsPresent ==
  [][\A p \in Callers :
       (/\ pc[p] = "setup_meta" /\ pc'[p] # "setup_meta" /\ ~gh'[p].fault
        /\ \E i \in DeleteByCustomTime :
             rules[i].condition.daysSinceCustomTime # arg[p].daysBeforeDeletion)
         => /\ pc'[p] = "done" /\ res'[p] = Ok("void")
            /\ gh'[p].reqs = 1
            /\ rules' = rules]_vars

OtherDaysCountAsPresentReached ==
  \E p \in Callers :
    /\ Done(p, "setupAutoDelete") /\ arg[p].daysBeforeDeletion = DefaultDaysBeforeDeletion
    /\ gh[p].seen = "present" /\ gh[p].reqs = 1 /\ res[p] = Ok("void")
    /\ rules = <<CustomTimeRule("Delete", 30)>>

\* C20: setupAutoDelete(d), d > 0, ends at the answer to getMetadata only
\* when one of the existing rules is a Delete rule conditioned on
\* daysSinceCustomTime; with any other rules it goes on to addLifecycleRule,
\* which appends the Delete rule with daysSinceCustomTime = d behind the
\* existing rules
SkipsOnlyForDeleteRule ==
  [][\A p \in Callers :
       /\ (pc[p] = "setup_meta" /\ pc'[p] # "setup_meta" /\ ~gh'[p].fault)
            => /\ rules' = rules
               /\ IF DeleteByCustomTime # {}
                    THEN pc'[p] = "done" /\ res'[p] = Ok("void")
                    ELSE pc'[p] = "setup_add"
       /\ (pc[p] = "setup_add" /\ pc'[p] = "done" /\ ~gh'[p].fault)
            => /\ res'[p] = Ok("void")
               /\ rules' = Append(rules,
                              CustomTimeRule("Delete", arg[p].daysBeforeDeletion))]_vars

\* C21 as stated: a topic name that has a handle in the cache has the same
\* handle after every step, whichever of publishMessage, publishMessages and
\* createTopic takes it and whether it succeeds or fails
CacheNeverChanges ==
  [][\A t \in DOMAIN topics : t \in DOMAIN topics' /\ topics'[t] = topics[t]]_vars

\* caller p's createTopic of name t succeeds in this step
CreatedNow(p, t) ==
  /\ pc[p] = "topic_create" /\ arg[p].topicName = t
  /\ pc'[p] = "done" /\ res'[p] = Ok("void")

\* C21 as amended: a topic name that has a handle keeps having one; its
\* handle changes only in the step in which a createTopic of that name
\* succeeds, which puts the newly obtained handle in its place; a createTopic
\* that fails leaves the whole cache as it was
CacheChangesOnlyByCreate ==
  /\ [][\A t \in DOMAIN topics :
          /\ t \in DOMAIN topics'
          /\ topics'[t] # topics[t]
               => /\ \E p \in Callers : CreatedNow(p, t)
                  /\ handles' = handles + 1 /\ topics'[t] = handles']_vars
  /\ [][\A p \in Callers :
          (pc[p] = "topic_create" /\ pc'[p] = "done" /\ res'[p].kind = "throw")
            => topics' = topics /\ handles' = handles]_vars

CacheChangesOnlyByCreateReached ==
  \E p \in Callers :
    /\ Done(p, "createTopic") /\ res[p].kind = "throw" /\ res[p].err = AlreadyExists
    /\ DOMAIN topics = ResolveTopicNames
    /\ topics[arg[p].topicName] = 3
    /\ \E i \in 1..Len(log) : log[i].topic = arg[p].topicName

\* caller p's publishMessages call gets its next message published in this step
PublishesNext(p) ==
  LET k == Len(arg[p].messageIds) + 1 IN
  /\ pc[p] = "pubs_send" /\ k <= Len(arg[p].messages)
  /\ log' = Append(log, [topic |-> arg[p].topicName,
                          data |-> log'[Len(log')].data,
                          attributes |-> arg[p].messages[k].attributes])
  /\ ParseJSON(log'[Len(log')].data) = arg[p].messages[k].data
  /\ arg'[p].messageIds = Append(arg[p].messageIds, Len(log'))

\* C22: the messages a publishMessages call has published are the first
\* messages of its list, one publish request for each and at most one more
\* for the message after them; a call that failed at message K has issued no
\* request for the messages after K; and the topic receives a message only
\* in a step of a running call that publishes the next message of its list,
\* so a call that has ended publishes nothing more
OnlyAPrefixIsSent ==
  /\ [](\A p \in Callers :
          arg[p].op = "publishMessages"
            => LET ids == arg[p].messageIds IN
               /\ Len(ids) <= Len(arg[p].messages)
               /\ \A i \in 1..Len(ids) : PublishedAs(p, i, ids[i])
               /\ gh[p].reqs \in {Len(ids), Len(ids) + 1}
               /\ gh[p].reqs <= Len(arg[p].messages)
               /\ Failed(p) => gh[p].reqs <= FailedAt(p))
  /\ [][log' # log
         => \E p \in Callers :
              /\ PublishesNext(p)
              /\ \A q \in Callers \ {p} : arg'[q] = arg[q]]_vars

OnlyAPrefixIsSentReached ==
  \E p, q \in Callers :
    /\ Failed(p) /\ gh[p].fault /\ FailedAt(p) = 1 /\ gh[p].reqs = 1
    /\ Len(arg[p].messages) = 2
    /\ Done(q, "publishMessages") /\ res[q] = Ok(<<1, 2>>)
    /\ Len(log) = 2

\* the not-found outcome of getObject for a file name
NotFoundOutcome(fileName) ==
  Threw(Error(<<"Failed to get object: ", "File ", fileName,
                " does not exist in bucket ", instance.bucketName>>))

\* C23: in the step that ends a getObject none of whose backend requests met
\* a backend fault, whatever deleteObject and uploadObject calls on the same
\* file name were served between its existence check and its download, the
\* call returns the bytes the file name holds at that moment or throws the
\* not-found outcome
GetSeesContentOrNotFound ==
  [][\A p \in Callers :
       (/\ pc[p] \in {"get_exists", "get_download"} /\ pc'[p] = "done"
        /\ ~gh'[p].fault)
         => LET k == arg[p].fileName IN
            \/ /\ store[k] # NoObject
               /\ res'[p] = Ok(store[k].content)
            \/ res'[p] = NotFoundOutcome(k)]_vars

====
